---- MODULE Spec2Model ----
(***************************************************************************)
(* Tornado-RESTful: the method/api decorators (api_config.py), the path    *)
(* template compiler (_MethodInfo.get_path), the route table builder       *)
(* (RestService) and the request dispatcher (RestResource._handle).        *)
(*                                                                         *)
(* A Python string is a sequence of one-character strings, so that the     *)
(* regular expressions and the split/replace calls of the code are         *)
(* computed character by character.                                        *)
(***************************************************************************)
EXTENDS Integers, Sequences, FiniteSets, TLC

VARIABLES
    api_info,     \* the class's _ApiInfo: [name, version, path]
    funcs,        \* the decorated methods of the handler class, in getmembers order
    phase,        \* "config" | "serving" | "failed"
    paths,        \* result of get_rest_resources_paths at start-up
    handlers,     \* the (pattern, handler) list handed to tornado.web.Application
    settings,     \* the application settings: [serve_traceback]
    request,      \* self.request: [method, path, raw, body]
    pc,           \* position of the _handle coroutine: "idle" | "await" | "done"
    idx,          \* index in resources_functions of the func being awaited
    invoked,      \* the calls func(self, *params_values) made for this request
    raised,       \* the exception that ended __init__ or _handle, or "none"
    response,     \* what the client gets: [status, ctype, kind, content, finished]
    peer          \* a second handler instance, serving a concurrent request:
                  \* [request, pc, idx, invoked, raised, response]

vars == <<api_info, funcs, phase, paths, handlers, settings, request, pc, idx,
          invoked, raised, response, peer>>

----------------------------------------------------------------------------
(* Bounds of the model *)

\* methods declared on the handler class
MaxMethods == 2
\* '/'-separated segments of a method's path template (dispatch runs)
MaxTplSegs == 2
\* segments of a request path after the API prefix
MaxReqSegs == 2
\* characters of a method's path template (registration-only runs)
MaxPathLen == 4

----------------------------------------------------------------------------
(* Strings *)

\* Python's None, kept apart from every string (also from the empty one)
None == <<"None">>

\* the characters \w matches, among those the model uses
WordChars ==
    {"a", "b", "c", "d", "e", "f", "g", "h", "i", "j", "k", "l", "m",
     "n", "o", "p", "q", "r", "s", "t", "u", "v", "w", "x", "y", "z",
     "A", "B", "C", "D", "E", "F", "G", "H", "I", "J", "K", "L", "M",
     "N", "O", "P", "Q", "R", "S", "T", "U", "V", "W", "X", "Y", "Z",
     "0", "1", "2", "3", "4", "5", "6", "7", "8", "9", "_"}

RECURSIVE Join(_, _)
\* sep.join(parts)
Join(parts, sep) ==
    IF parts = <<>> THEN <<>>
    ELSE IF Len(parts) = 1 THEN parts[1]
    ELSE parts[1] \o sep \o Join(Tail(parts), sep)

RECURSIVE SplitFrom(_, _, _)
\* the parts of s after position i, cur being the part read so far
SplitFrom(s, i, cur) ==
    IF i > Len(s) THEN <<cur>>
    ELSE IF s[i] = "/" THEN <<cur>> \o SplitFrom(s, i + 1, <<>>)
    ELSE SplitFrom(s, i + 1, Append(cur, s[i]))

\* s.split('/')
Split(s) == SplitFrom(s, 1, <<>>)

Contains(s, c) == \E i \in 1..Len(s) : s[i] = c

InList(x, xs) == \E i \in 1..Len(xs) : xs[i] = x

\* [x for x in xs if x != '']
NonEmpty(xs) == SelectSeq(xs, LAMBDA x : x # <<>>)

RECURSIVE WordEnd(_, _)
\* last position of the run of \w characters that starts at i
WordEnd(s, i) ==
    IF i < Len(s) /\ s[i + 1] \in WordChars THEN WordEnd(s, i + 1) ELSE i

RECURSIVE FindallFrom(_, _, _)
FindallFrom(s, lead, i) ==
    IF i > Len(s) THEN <<>>
    ELSE IF i > 1 /\ s[i - 1] = lead /\ s[i] \in WordChars
         THEN <<SubSeq(s, i, WordEnd(s, i))>>
              \o FindallFrom(s, lead, WordEnd(s, i) + 1)
         ELSE FindallFrom(s, lead, i + 1)

\* re.findall(r"(?<=LEAD)\w+", s)
FindallAfter(s, lead) == FindallFrom(s, lead, 1)

\* s.replace(c, "")
RemoveChar(s, c) == SelectSeq(s, LAMBDA x : x # c)

RECURSIVE SubPlaceholderFrom(_, _)
SubPlaceholderFrom(s, i) ==
    IF i > Len(s) THEN <<>>
    ELSE IF /\ i > 1 /\ s[i - 1] = "{" /\ s[i] \in WordChars
            /\ WordEnd(s, i) < Len(s) /\ s[WordEnd(s, i) + 1] = "}"
         THEN <<".", "*">> \o SubPlaceholderFrom(s, WordEnd(s, i) + 2)
         ELSE <<s[i]>> \o SubPlaceholderFrom(s, i + 1)

\* re.sub(r"(?<={)\w+}", ".*", s)
SubPlaceholder(s) == SubPlaceholderFrom(s, 1)

RECURSIVE SubTypedFrom(_, _)
SubTypedFrom(s, i) ==
    IF i > Len(s) THEN <<>>
    ELSE IF i > 1 /\ s[i - 1] = "<" /\ s[i] \in WordChars
         THEN SubTypedFrom(s, WordEnd(s, i) + 1)
         ELSE <<s[i]>> \o SubTypedFrom(s, i + 1)

\* re.sub(r"(?<=<)\w+", "", s)
SubTyped(s) == SubTypedFrom(s, 1)

\* re.match('^{[^{}]+}$', part) is not None
IsPlaceholderPart(part) ==
    /\ Len(part) >= 3
    /\ part[1] = "{"
    /\ part[Len(part)] = "}"
    /\ \A i \in 2..(Len(part) - 1) : part[i] \notin {"{", "}"}

----------------------------------------------------------------------------
(* api_config.py *)

DEFAULT_HTTP_METHOD == <<"P", "O", "S", "T">>
DEFAULT_CONTENT_TYPE ==
    <<"a", "p", "p", "l", "i", "c", "a", "t", "i", "o", "n", "/", "j", "s", "o", "n">>
GET == <<"G", "E", "T">>
POST == <<"P", "O", "S", "T">>
PUT == <<"P", "U", "T">>
DELETE == <<"D", "E", "L", "E", "T", "E">>
TEXT_PLAIN == <<"t", "e", "x", "t", "/", "p", "l", "a", "i", "n">>

\* Python's "x or y" on strings and None
Or(x, y) == IF x = None \/ x = <<>> THEN y ELSE x

\* the decorator with the path defaulting to the given name
method_PathFromName(name, path, http_method, content_type, api_method_name) ==
    [name |-> Or(name, api_method_name),
     path |-> Or(path, Or(name, api_method_name)),
     http_method |-> Or(http_method, DEFAULT_HTTP_METHOD),
     content_type |-> Or(content_type, DEFAULT_CONTENT_TYPE)]

\* _MethodInfo.__init__ as called by the decorator: the method_info attached
\* to the function api_method_name
method(name, path, http_method, content_type, api_method_name) ==
    [name |-> Or(name, api_method_name),
     path |-> Or(path, api_method_name),
     http_method |-> Or(http_method, DEFAULT_HTTP_METHOD),
     content_type |-> Or(content_type, DEFAULT_CONTENT_TYPE)]

\* path_dict['api_path']
ApiPath(info) ==
    IF info.path = None \/ info.path = <<>> THEN <<>>
    ELSE IF info.path[Len(info.path)] = "/" THEN info.path
    ELSE info.path \o <<"/">>

RECURSIVE LStrip(_)
\* s.lstrip('/')
LStrip(s) == IF s # <<>> /\ s[1] = "/" THEN LStrip(Tail(s)) ELSE s

\* the method path with every leading '/' removed
MethodPath_LStrip(mi) == LStrip(Or(mi.path, <<>>))

\* the method path with one leading '/' removed
MethodPath(mi) ==
    LET p == Or(mi.path, <<>>)
    IN IF p # <<>> /\ p[1] = "/" THEN Tail(p) ELSE p

\* '/{api_name}/{api_version}/{api_path}{path}'.format(**path_dict)
FormatPath(mi, info) ==
    <<"/">> \o info.name \o <<"/">> \o info.version \o <<"/">>
        \o ApiPath(info) \o MethodPath(mi)

\* the check of one part in get_path's loop: TRUE when the part raises
PartRaises(part) ==
    /\ part # <<>>
    /\ Contains(part, "{")
    /\ Contains(part, "}")
    /\ ~IsPlaceholderPart(part)

\* _MethodInfo.get_path: [raises, path]
get_path(mi, info) ==
    LET path == FormatPath(mi, info)
        parts == Split(path)
    IN [raises |-> \E i \in 1..Len(parts) : PartRaises(parts[i]),
        path |-> path]

----------------------------------------------------------------------------
(* apiserving.py: registration *)

\* RestResource.get_resources_functions: inspect.getmembers returns the
\* members sorted by name, and funcs is kept in that order
get_resources_functions == funcs

\* RestResource.get_rest_resources_paths: [raises, paths]
get_rest_resources_paths ==
    LET fs == get_resources_functions
    IN [raises |-> \E i \in 1..Len(fs) : get_path(fs[i].method_info, api_info).raises,
        paths |-> [i \in 1..Len(fs) |-> get_path(fs[i].method_info, api_info).path]]

\* the listener pattern of one compiled path
ToPattern(path) ==
    LET s == RemoveChar(SubPlaceholder(path), "{")
    IN RemoveChar(RemoveChar(RemoveChar(RemoveChar(SubTyped(s), "<"), ">"), "&"), "?")

\* RestService._rest_handler_to_tornado_handler
rest_handler_to_tornado_handler(ps) == [i \in 1..Len(ps) |-> ToPattern(ps[i])]

RECURSIVE ReMatch(_, _)
\* re.match(pattern + '$', s) for the patterns ToPattern yields: '.' is any
\* character, '.*' any run of characters, every other character itself
ReMatch(p, s) ==
    IF p = <<>> THEN s = <<>>
    ELSE IF Len(p) >= 2 /\ p[1] = "." /\ p[2] = "*"
         THEN \E k \in 1..(Len(s) + 1) :
                 ReMatch(SubSeq(p, 3, Len(p)), SubSeq(s, k, Len(s)))
    ELSE IF s = <<>> THEN FALSE
    ELSE /\ (p[1] = "." \/ p[1] = s[1])
         /\ ReMatch(Tail(p), Tail(s))

\* tornado.web.Application routes a request to the handler class when one of
\* the registered patterns matches its path
ListenerMatches(path) == \E i \in 1..Len(handlers) : ReMatch(handlers[i], path)

----------------------------------------------------------------------------
(* apiserving.py: dispatch *)

\* tornado.escape.json_decode on the values self.request.body can hold:
\* raw bytes that are no JSON document, raw bytes of a JSON object, and the
\* dict a previous json_decode left there (to_basestring rejects it)
json_decode(body) ==
    CASE body = "raw_bad" -> [exc |-> "ValueError", value |-> body]
      [] body = "raw_obj" -> [exc |-> "none", value |-> "dict_obj"]
      [] OTHER -> [exc |-> "TypeError", value |-> body]

\* endpoint = re.findall(r"(?<=/)\w+", method_info.get_path(self.api_info))
Endpoint(mi) == FindallAfter(get_path(mi, api_info).path, "/")

\* endpoint_from_request = list(filter(lambda x: x in path_parts, endpoint))
EndpointFromRequest(endpoint, path_parts) ==
    SelectSeq(endpoint, LAMBDA x : InList(x, path_parts))

\* endpoint_params = re.findall(r"(?<={)\w+", method_info.get_path(self.api_info))
EndpointParams(mi) == FindallAfter(get_path(mi, api_info).path, "{")

\* RestResource._find_params_value_of_url
find_params_value_of_url(services, url) ==
    SelectSeq(Split(url), LAMBDA item : ~InList(item, services) /\ item # <<>>)

\* the three tests of the loop body that end in "continue"
VerbMatches(mi, verb) == mi.http_method = verb

EndpointMatches(mi, path) ==
    LET endpoint == Endpoint(mi)
    IN endpoint = EndpointFromRequest(endpoint, Split(path))

ArityMatches(mi, path) ==
    Len(EndpointParams(mi)) + Len(Endpoint(mi)) = Len(NonEmpty(Split(path)))

IsCandidate(mi, verb, path) ==
    /\ VerbMatches(mi, verb)
    /\ EndpointMatches(mi, path)
    /\ ArityMatches(mi, path)

\* the JSON test without PUT
NeedsJson_PostOnly(mi) ==
    /\ mi.http_method = POST
    /\ mi.content_type = DEFAULT_CONTENT_TYPE

\* method_info.http_method in ['POST', 'PUT'] and
\* method_info.content_type == 'application/json'
NeedsJson(mi) ==
    /\ mi.http_method \in {POST, PUT}
    /\ mi.content_type = DEFAULT_CONTENT_TYPE

\* RestResource.write_error, reached through send_error when an exception
\* leaves the coroutine before the response is finished; message is the
\* log_message of an HTTPError, "none" without one
write_error(status_code, message) ==
    IF settings.serve_traceback
      THEN [status |-> status_code, ctype |-> "text/plain", kind |-> "traceback",
            content |-> message, finished |-> TRUE]
      ELSE [status |-> status_code, ctype |-> "application/json", kind |-> "error",
            content |-> message, finished |-> TRUE]

\* a coroutine that ends with an exception: tornado sends the error unless
\* the response is already finished
Raise(st, exc, status_code, message) ==
    [st EXCEPT !.pc = "done",
               !.raised = exc,
               !.response = IF st.response.finished THEN st.response
                            ELSE write_error(status_code, message)]

\* a coroutine that returns: tornado finishes the response if nobody did
Return(st) ==
    [st EXCEPT !.pc = "done",
               !.response = [st.response EXCEPT !.finished = TRUE]]

RECURSIVE Loop(_, _)
\* "for func in resources_functions" from its i-th element on, up to the
\* next "yield func(...)", exception or end of the loop
Loop(st, i) ==
    LET fs == get_resources_functions IN
    IF i > Len(fs) THEN Return(st)
    ELSE
      LET f == fs[i]
          mi == f.method_info
          decoded == json_decode(st.request.body)
          body == IF NeedsJson(mi) THEN decoded.value ELSE st.request.body
          params_values == find_params_value_of_url(Endpoint(mi), st.request.path)
          call == [func |-> i, args |-> params_values, body |-> body,
                   returned |-> "none"]
          st1 == [st EXCEPT !.request.body = body,
                            !.invoked = Append(st.invoked, call)]
      IN IF ~IsCandidate(mi, st.request.method, st.request.path)
           THEN Loop(st, i + 1)
         ELSE IF NeedsJson(mi) /\ decoded.exc = "ValueError"
           THEN Raise(st, "HTTPError", 400, "Invalid JSON")
         ELSE IF NeedsJson(mi) /\ decoded.exc = "TypeError"
           THEN Raise(st, "TypeError", 500, "none")
         ELSE IF Len(params_values) # f.nparams
           THEN Raise([st1 EXCEPT !.response.ctype =
                          IF st.response.finished THEN st.response.ctype
                          ELSE "application/json"],
                      "TypeError", 500, "none")
         ELSE [st1 EXCEPT !.pc = "await", !.idx = i,
                          !.response.ctype = IF st.response.finished
                                               THEN st.response.ctype
                                               ELSE "application/json"]

\* _handle without the test of the verb against http_methods
handle_start_NoVerbTest(st, verb) == Loop(st, 1)

\* RestResource._handle from its first line to its first suspension
handle_start(st, verb) ==
    LET fs == get_resources_functions
        http_methods == {fs[i].method_info.http_method : i \in 1..Len(fs)}
    IN IF verb \notin http_methods
         THEN Raise(st, "HTTPError", 405, "none")
       ELSE Loop(st, 1)

\* isinstance(response, dict)
IsDict(shape) == shape = "dict"

\* a test that takes every sequence for a list
IsList_AnySequence(shape) == shape \in {"list", "tuple"}

\* isinstance(response, list)
IsList(shape) == shape = "list"

\* RestResource._handle from the value the awaited func returned on
handle_resume(st0, shape) ==
    LET st == [st0 EXCEPT !.invoked[Len(st0.invoked)].returned = shape] IN
    IF IsDict(shape) \/ IsList(shape)
      THEN IF st.response.finished
             THEN Raise(st, "RuntimeError", 500, "none")
           ELSE Loop([st EXCEPT !.response =
                        [status |-> 200,
                         ctype |-> st.response.ctype,
                         kind |-> IF IsDict(shape) THEN "document" ELSE "items",
                         content |-> shape,
                         finished |-> TRUE]],
                     st.idx + 1)
    ELSE Raise(st, "HTTPError", 500, "Response is not a json document")

----------------------------------------------------------------------------
(* Inputs *)

SeqsUpTo(S, n) == UNION {[1..k -> S] : k \in 0..n}

\* the API of demo/app.py, api(name='atl', version='v1') and
\* api_class(path='epg'), with the names cut to one letter
ApiName == <<"n">>
ApiVersion == <<"v", "1">>
ClassPath == <<"e">>

\* segments of the method path templates of the dispatch runs
TplSegs == {<<"a">>, <<"b">>, <<"{", "x", "}">>}

Templates ==
    {Join(segs, <<"/">>) : segs \in SeqsUpTo(TplSegs, MaxTplSegs) \ {<<>>}}

\* segments of the request paths
ReqSegs == {<<"a">>, <<"b">>, <<"7">>}

RequestPaths ==
    {<<"/">> \o Join(<<api_info.name, api_info.version>>
                      \o NonEmpty(Split(Or(api_info.path, <<>>))) \o tail, <<"/">>) :
        tail \in SeqsUpTo(ReqSegs, MaxReqSegs)}

Bodies == {"raw_bad", "raw_obj"}

\* what a handler method can return
ReturnShapes == {"dict", "list", "tuple", "UserDict", "str"}

\* the name of the i-th function of the class body
FuncName(i) == <<"f", IF i = 1 THEN "1" ELSE IF i = 2 THEN "2" ELSE "3">>

\* the characters of the templates of the registration-only runs
PathChars == {"a", "/", "{", "}", "<"}

\* templates of demo/app.py and of the documentation
ExamplePaths ==
    {<<"c","h","e","c","k","/","{","c","h","e","c","k","_","i","d","}","/",
       "a","p","p","/","{","i","d","}">>,
     <<"c","h","e","c","k","/","{","c","h","e","c","k","_","i","d","/",
       "a","p","p","/","{","i","d","}">>}

AnyPaths == SeqsUpTo(PathChars, MaxPathLen) \cup ExamplePaths \cup {None}

ClassPaths == {None, <<>>, <<"e">>, <<"e", "/">>}

NoRequest == [method |-> <<>>, path |-> <<>>, raw |-> "none", body |-> "none"]

NoResponse == [status |-> 200, ctype |-> "text/html", kind |-> "none",
               content |-> "none", finished |-> FALSE]

\* a handler instance that serves no request
Idle == [request |-> NoRequest, pc |-> "idle", idx |-> 0, invoked |-> <<>>,
         raised |-> "none", response |-> NoResponse]

----------------------------------------------------------------------------
(* The program *)

Init ==
    /\ api_info = [name |-> ApiName, version |-> ApiVersion, path |-> ClassPath]
    /\ funcs = <<>>
    /\ phase = "config"
    /\ paths = <<>>
    /\ handlers = <<>>
    /\ settings \in [serve_traceback : BOOLEAN]
    /\ request = NoRequest
    /\ pc = "idle"
    /\ idx = 0
    /\ invoked = <<>>
    /\ raised = "none"
    /\ response = NoResponse
    /\ peer = Idle

\* a function of the class body decorated with @method(...); it takes as
\* many path arguments as its template has placeholders, as "test" of
\* demo/app.py does
Decorate(name, path, http_method, content_type) ==
    /\ Len(funcs) < MaxMethods
    /\ funcs' = Append(funcs,
          [decl |-> [name |-> name, path |-> path, http_method |-> http_method,
                     content_type |-> content_type,
                     fname |-> FuncName(Len(funcs) + 1)],
           method_info |-> method(name, path, http_method, content_type,
                                  FuncName(Len(funcs) + 1)),
           nparams |-> Len(FindallAfter(Or(path, <<>>), "{"))])
    /\ UNCHANGED <<api_info, phase, paths, handlers, settings, request, pc, idx,
                   invoked, raised, response, peer>>

\* the (http_method, content_type) arguments the handler classes use
MethodKinds == {<<None, None>>, <<GET, None>>, <<PUT, None>>, <<None, TEXT_PLAIN>>}

DecorateMethod ==
    /\ phase = "config"
    /\ \E path \in Templates, kind \in MethodKinds :
          Decorate(None, path, kind[1], kind[2])

\* RestService.__init__; the name ApiConfigurationError that get_path raises
\* is defined nowhere in api_config.py, so the raise ends in a NameError
RestServiceInit ==
    /\ phase = "config"
    /\ LET got == get_rest_resources_paths IN
         IF got.raises
           THEN /\ phase' = "failed"
                /\ raised' = "NameError"
                /\ UNCHANGED <<paths, handlers>>
           ELSE /\ phase' = "serving"
                /\ paths' = got.paths
                /\ handlers' = rest_handler_to_tornado_handler(got.paths)
                /\ UNCHANGED raised
    /\ UNCHANGED <<api_info, funcs, settings, request, pc, idx, invoked, response,
                   peer>>

State == [request |-> request, pc |-> pc, idx |-> idx, invoked |-> invoked,
          raised |-> raised, response |-> response]

\* a dispatch whose parsed body lands in an object the instances share
SetState_SharedBody(st) ==
    /\ request' = st.request
    /\ pc' = st.pc
    /\ idx' = st.idx
    /\ invoked' = st.invoked
    /\ raised' = st.raised
    /\ response' = st.response
    /\ peer' = [peer EXCEPT !.request.body = st.request.body]
    /\ UNCHANGED <<api_info, funcs, phase, paths, handlers, settings>>

SetState(st) ==
    /\ request' = st.request
    /\ pc' = st.pc
    /\ idx' = st.idx
    /\ invoked' = st.invoked
    /\ raised' = st.raised
    /\ response' = st.response
    /\ UNCHANGED <<api_info, funcs, phase, paths, handlers, settings, peer>>

\* a request the listener hands to a fresh handler instance, which runs
\* _handle(verb) up to its first suspension
Serve(verb) ==
    /\ pc = "idle"
    /\ \E path \in RequestPaths, body \in Bodies :
         /\ ListenerMatches(path)
         /\ SetState(handle_start(
               [State EXCEPT !.request = [method |-> verb, path |-> path,
                                          raw |-> body, body |-> body]],
               verb))

get ==
    /\ phase = "serving"
    /\ Serve(GET)

post ==
    /\ phase = "serving"
    /\ Serve(POST)

put ==
    /\ phase = "serving"
    /\ Serve(PUT)

delete ==
    /\ phase = "serving"
    /\ Serve(DELETE)

\* the awaited handler method returns
HandlerReturns ==
    /\ pc = "await"
    /\ \E shape \in ReturnShapes : SetState(handle_resume(State, shape))

\* the awaited handler method raises
HandlerRaises ==
    /\ pc = "await"
    /\ SetState(Raise(State, "Exception", 500, "none"))

\* the handler instance is dropped once its request is over
Forget ==
    /\ pc = "done"
    /\ SetState([request |-> NoRequest, pc |-> "idle", idx |-> 0,
                 invoked |-> <<>>, raised |-> "none", response |-> NoResponse])

Next ==
    \/ DecorateMethod
    \/ RestServiceInit
    \/ get
    \/ post
    \/ put
    \/ delete
    \/ HandlerReturns
    \/ HandlerRaises
    \/ Forget

Spec == Init /\ [][Next]_vars

----------------------------------------------------------------------------
(* Registration alone, over every short template *)

InitCompile ==
    /\ api_info \in {[name |-> ApiName, version |-> ApiVersion, path |-> p] :
                         p \in ClassPaths}
    /\ funcs = <<>>
    /\ phase = "config"
    /\ paths = <<>>
    /\ handlers = <<>>
    /\ settings \in [serve_traceback : BOOLEAN]
    /\ request = NoRequest
    /\ pc = "idle"
    /\ idx = 0
    /\ invoked = <<>>
    /\ raised = "none"
    /\ response = NoResponse
    /\ peer = Idle

\* the one decorated function of the class
DecorateAny ==
    /\ phase = "config"
    /\ funcs = <<>>
    /\ \E name \in {None, <<"a">>}, path \in AnyPaths, kind \in MethodKinds :
          Decorate(name, path, kind[1], kind[2])

NextCompile ==
    \/ DecorateAny
    \/ RestServiceInit

SpecCompile == InitCompile /\ [][NextCompile]_vars

----------------------------------------------------------------------------
(* Two handler instances of the class serving concurrent requests.  tornado *)
(* makes one RestResource instance per request; the coroutines of the two  *)
(* instances interleave at their suspension points.                        *)

\* the application of demo/app.py: settings = dict(debug=True)
InitConcurrent ==
    /\ api_info = [name |-> ApiName, version |-> ApiVersion, path |-> ClassPath]
    /\ funcs = <<>>
    /\ phase = "config"
    /\ paths = <<>>
    /\ handlers = <<>>
    /\ settings = [serve_traceback |-> TRUE]
    /\ request = NoRequest
    /\ pc = "idle"
    /\ idx = 0
    /\ invoked = <<>>
    /\ raised = "none"
    /\ response = NoResponse
    /\ peer = Idle

\* the one-segment templates of the concurrent runs
ConcurrentTemplates == {<<"a">>, <<"{", "x", "}">>}

\* a function decorated with @method(path=...): POST, application/json
DecorateConcurrent ==
    /\ phase = "config"
    /\ \E path \in ConcurrentTemplates : Decorate(None, path, None, None)

SetPeer(st) ==
    /\ peer' = st
    /\ UNCHANGED <<api_info, funcs, phase, paths, handlers, settings, request, pc,
                   idx, invoked, raised, response>>

\* the listener hands a request to the second instance
PeerServe ==
    /\ phase = "serving"
    /\ peer.pc = "idle"
    /\ \E verb \in {GET, POST, PUT, DELETE}, path \in RequestPaths, body \in Bodies :
         /\ ListenerMatches(path)
         /\ SetPeer(handle_start(
               [peer EXCEPT !.request = [method |-> verb, path |-> path,
                                         raw |-> body, body |-> body]],
               verb))

\* the handler method the second instance awaits returns
PeerHandlerReturns ==
    /\ peer.pc = "await"
    /\ \E shape \in ReturnShapes : SetPeer(handle_resume(peer, shape))

\* the handler method the second instance awaits raises
PeerHandlerRaises ==
    /\ peer.pc = "await"
    /\ SetPeer(Raise(peer, "Exception", 500, "none"))

\* the second instance is dropped once its request is over
PeerForget ==
    /\ peer.pc = "done"
    /\ SetPeer(Idle)

NextConcurrent ==
    \/ DecorateConcurrent
    \/ RestServiceInit
    \/ get
    \/ post
    \/ put
    \/ delete
    \/ HandlerReturns
    \/ HandlerRaises
    \/ Forget
    \/ PeerServe
    \/ PeerHandlerReturns
    \/ PeerHandlerRaises
    \/ PeerForget

SpecConcurrent == InitConcurrent /\ [][NextConcurrent]_vars

----------------------------------------------------------------------------
(* Claims about registration (checked under SpecCompile) *)

Funcs == 1..Len(funcs)

NotGiven(arg) == arg = None \/ arg = <<>>

HasBrace(part) == Contains(part, "{") \/ Contains(part, "}")

\* '{identifier}' filling the whole segment
WellFormedPlaceholder(part) ==
    /\ Len(part) >= 3
    /\ part[1] = "{"
    /\ part[Len(part)] = "}"
    /\ \A i \in 2..(Len(part) - 1) : part[i] \in WordChars

\* the compiled path is registered: it is returned and has a route table entry
Registered(i) == phase = "serving" /\ i \in 1..Len(paths)

\* C5 (as claimed): a compiled path with a segment that holds a brace and is
\* not exactly one well-formed placeholder is never registered: start-up
\* fails instead.
C5_MalformedNeverRegistered ==
    \A i \in Funcs :
        LET parts == Split(FormatPath(funcs[i].method_info, api_info)) IN
        (\E k \in 1..Len(parts) :
            HasBrace(parts[k]) /\ ~WellFormedPlaceholder(parts[k]))
        => phase # "serving"

\* the class path as the claim's api_path
C8_ApiPath ==
    IF NotGiven(api_info.path) THEN <<>>
    ELSE IF api_info.path[Len(api_info.path)] = "/" THEN api_info.path
    ELSE Append(api_info.path, "/")

C8_Prefix ==
    <<"/">> \o api_info.name \o <<"/">> \o api_info.version \o <<"/">> \o C8_ApiPath

\* the template argument as the decorator keeps it
C8_Template(i) ==
    IF NotGiven(funcs[i].decl.path) THEN funcs[i].decl.fname
    ELSE funcs[i].decl.path

\* C8 (as claimed): the compiled path is the prefix followed by the method's
\* path template with its leading slashes stripped, so that no '//' comes
\* from the method path.
C8_AllLeadingSlashesStripped ==
    \A i \in Funcs :
        Registered(i) => paths[i] = C8_Prefix \o LStrip(C8_Template(i))

\* C8 (amended): the compiled path is "/" + api_name + "/" + api_version + "/"
\* + api_path + method_path, where method_path is the template without its
\* first character when that is '/', and the template itself otherwise.
C8_CompiledPath ==
    \A i \in Funcs :
        Registered(i) =>
            LET t == C8_Template(i) IN
            paths[i] = C8_Prefix \o (IF t[1] = "/" THEN SubSeq(t, 2, Len(t)) ELSE t)

\* C8 witness: a registered method whose template starts with '/', on a class
\* whose path has no trailing '/'.
C8_Witness ==
    /\ phase = "serving"
    /\ Len(paths) = 1
    /\ ~NotGiven(funcs[1].decl.path)
    /\ funcs[1].decl.path[1] = "/"
    /\ Len(funcs[1].decl.path) > 1
    /\ api_info.path = <<"e">>
    /\ paths[1] # <<>>

\* the pattern the claim describes: placeholder segments become '.*'
C9_Expected(path) ==
    LET parts == Split(path) IN
    Join([k \in 1..Len(parts) |->
            IF IsPlaceholderPart(parts[k]) THEN <<".", "*">> ELSE parts[k]],
         <<"/">>)

\* C9 (as claimed), for templates without the characters < > & ? that the
\* builder deletes on purpose: the registered pattern is the compiled path
\* with each placeholder segment replaced by '.*', and it holds no brace.
C9_PatternIsWildcarded ==
    \A i \in Funcs :
        (Registered(i) /\ ~Contains(paths[i], "<")) =>
            /\ handlers[i] = C9_Expected(paths[i])
            /\ ~HasBrace(handlers[i])

\* C10 (as claimed): a method decorated without a path has its name as its
\* path template.
C10_PathDefaultsToName ==
    \A i \in Funcs :
        NotGiven(funcs[i].decl.path) =>
            funcs[i].method_info.path = funcs[i].method_info.name

\* C10 (amended): a method decorated without a path has the decorated
\* function's own identifier as its path template, also when a name is
\* given; the name defaults to that identifier, the verb to POST and the
\* content type to application/json.
C10_Defaults ==
    \A i \in Funcs :
        LET d == funcs[i].decl
            mi == funcs[i].method_info
        IN /\ mi.path = (IF NotGiven(d.path) THEN d.fname ELSE d.path)
           /\ mi.name = (IF NotGiven(d.name) THEN d.fname ELSE d.name)
           /\ mi.http_method = (IF NotGiven(d.http_method) THEN POST ELSE d.http_method)
           /\ mi.content_type = (IF NotGiven(d.content_type)
                                   THEN DEFAULT_CONTENT_TYPE ELSE d.content_type)

\* C10 witness: a method decorated with a name and no path, registered under
\* the path of its identifier.
C10_Witness ==
    /\ phase = "serving"
    /\ Len(funcs) = 1
    /\ funcs[1].decl.name = <<"a">>
    /\ funcs[1].decl.path = None
    /\ funcs[1].decl.http_method = None
    /\ paths[1] = C8_Prefix \o funcs[1].decl.fname

----------------------------------------------------------------------------
(* Claims about dispatch (checked under Spec) *)

Verbs == {funcs[i].method_info.http_method : i \in Funcs}

Candidate(i) == IsCandidate(funcs[i].method_info, request.method, request.path)

RECURSIVE FirstCandidateFrom(_)
FirstCandidateFrom(i) ==
    IF i > Len(funcs) THEN 0
    ELSE IF Candidate(i) THEN i
    ELSE FirstCandidateFrom(i + 1)

\* the first method, in iteration order, that passes the three checks; 0
\* when there is none
Selected == FirstCandidateFrom(1)

\* path is the compiled path tpl with a non-empty, slash-free value in the
\* place of each placeholder
InstanceOf(path, tpl) ==
    LET t == Split(tpl)
        r == Split(path)
    IN /\ Len(t) = Len(r)
       /\ \A k \in 1..Len(t) :
            IF IsPlaceholderPart(t[k]) THEN r[k] # <<>> ELSE r[k] = t[k]

DistinctVerbPaths ==
    \A i, j \in Funcs :
        i # j => <<funcs[i].method_info.http_method, paths[i]>>
                 # <<funcs[j].method_info.http_method, paths[j]>>

\* the call reached the handler method: Python could bind its arguments
Bound(call) == Len(call.args) = funcs[call.func].nparams

\* C1 (as claimed): on a class with pairwise distinct (verb, compiled path)
\* pairs, a request with M's verb, a JSON body and a path that instantiates
\* M's compiled path gets M invoked, and no other method. It is stated here
\* for the requests whose path instantiates the compiled path of M alone
\* among the methods of that verb, where no other resolution can be meant.
C1_RoundTrip ==
    \A m \in Funcs :
        (/\ pc # "idle"
         /\ DistinctVerbPaths
         /\ request.method = funcs[m].method_info.http_method
         /\ request.raw = "raw_obj"
         /\ InstanceOf(request.path, paths[m])
         /\ \A j \in Funcs \ {m} :
               funcs[j].method_info.http_method = request.method
               => ~InstanceOf(request.path, paths[j]))
        => /\ invoked # <<>>
           /\ \A k \in 1..Len(invoked) : invoked[k].func = m /\ Bound(invoked[k])

\* C2 (as claimed): a request whose verb is registered and for which no
\* method passes the checks ends with NotFound (404).
C2_NotFound ==
    (/\ pc = "done"
     /\ request.method \in Verbs
     /\ \A i \in Funcs : ~Candidate(i))
    => raised = "HTTPError" /\ response.status = 404

C4_MethodNotAllowed ==
    (pc # "idle" /\ request.method \notin Verbs)
    => /\ pc = "done"
       /\ raised = "HTTPError"
       /\ response.status = 405
       /\ response.content = "none"
       /\ response.finished
       /\ invoked = <<>>
       /\ request.body = request.raw

\* C4 witness: a 405 for a path that instantiates the template of a method
\* registered under another verb.
C4_Witness ==
    /\ pc = "done"
    /\ response.status = 405
    /\ \E i \in Funcs :
          /\ InstanceOf(request.path, paths[i])
          /\ Len(EndpointParams(funcs[i].method_info)) > 0

C7_AnySequenceWrapped ==
    (invoked # <<>> /\ invoked[1].returned # "none") =>
        LET shape == invoked[1].returned IN
        IF shape \in {"dict", "UserDict"}
          THEN response.status = 200 /\ response.kind = "document"
        ELSE IF shape \in {"list", "tuple"}
          THEN response.status = 200 /\ response.kind = "items"
        ELSE response.status = 500

\* C7 (amended): what the selected method returns decides the response: a
\* dict is written as the body, a list is written as {"items": list}, and
\* every other shape (a string, a tuple, a mapping that is no dict) is an
\* InternalError (500, "Response is not a json document") with no success
\* body written.
C7_ResponseByShape ==
    (invoked # <<>> /\ invoked[1].returned # "none") =>
        LET shape == invoked[1].returned IN
        IF shape = "dict"
          THEN response = [status |-> 200, ctype |-> "application/json",
                           kind |-> "document", content |-> shape,
                           finished |-> TRUE]
        ELSE IF shape = "list"
          THEN response = [status |-> 200, ctype |-> "application/json",
                           kind |-> "items", content |-> shape,
                           finished |-> TRUE]
        ELSE /\ pc = "done"
             /\ raised = "HTTPError"
             /\ response.status = 500
             /\ response.kind \in {"error", "traceback"}
             /\ response.content = "Response is not a json document"
             /\ response.finished

\* C7 witness: a handler method that returned a tuple, answered 500.
C7_Witness ==
    /\ pc = "done"
    /\ Len(invoked) = 1
    /\ invoked[1].returned = "tuple"
    /\ response.status = 500
    /\ response.content = "Response is not a json document"

\* the literal (non-placeholder) segments of the compiled path of method i
Literals(i) ==
    SelectSeq(NonEmpty(Split(paths[i])), LAMBDA part : ~HasBrace(part))

RECURSIVE IsSubsequence(_, _)
\* the elements of s occur in t, in the order they have in s
IsSubsequence(s, t) ==
    IF s = <<>> THEN TRUE
    ELSE IF t = <<>> THEN FALSE
    ELSE IF Head(s) = Head(t) THEN IsSubsequence(Tail(s), Tail(t))
    ELSE IsSubsequence(s, Tail(t))

\* C12 (as claimed): a method is selected for a request only if the literal
\* segments of its compiled path are segments of the request path and stand
\* there in the order they have in the template; a request that has them in
\* another order does not select the method.
\* It is stated here for the templates that have no literal segment twice,
\* where "in the same order" can be read in one way only.
C12_LiteralsInOrder ==
    \A k \in 1..Len(invoked) :
        LET lits == Literals(invoked[k].func) IN
        (\A m, n \in 1..Len(lits) : m # n => lits[m] # lits[n])
        => IsSubsequence(lits, NonEmpty(Split(request.path)))

RECURSIVE ValuesAt(_, _)
\* the segments of r that stand where t has a placeholder
ValuesAt(t, r) ==
    IF t = <<>> \/ r = <<>> THEN <<>>
    ELSE (IF IsPlaceholderPart(Head(t)) THEN <<Head(r)>> ELSE <<>>)
         \o ValuesAt(Tail(t), Tail(r))

\* the placeholders of the compiled path of method i
Placeholders(i) ==
    SelectSeq(NonEmpty(Split(paths[i])), IsPlaceholderPart)

\* C13 (as claimed): every call of a handler method passes as many path
\* arguments as the method's template has placeholders, the i-th argument
\* being the request segment at the position of the i-th placeholder, also
\* when that segment equals a literal segment of the template.
C13_ArgsArePlaceholderSegments ==
    \A k \in 1..Len(invoked) :
        LET i == invoked[k].func IN
        /\ Len(invoked[k].args) = Len(Placeholders(i))
        /\ invoked[k].args = ValuesAt(NonEmpty(Split(paths[i])),
                                      NonEmpty(Split(request.path)))

----------------------------------------------------------------------------
(* Claims about concurrent dispatches (checked under SpecConcurrent) *)

\* the Method Descriptors, the Class Routing Info with the API Descriptor,
\* and the route table
RegistrationData == <<funcs, api_info, paths, handlers>>

\* the instance as the listener hands it the request of st
Fresh(st) == [Idle EXCEPT !.request = [st.request EXCEPT !.body = st.request.raw]]

RECURSIVE LikeAlone(_, _)
\* st is where the dispatch of its request gets from cur with no other
\* request around, its handler methods answering as they did for st
LikeAlone(cur, st) ==
    IF cur.pc # "await" \/ Len(cur.invoked) > Len(st.invoked) THEN cur = st
    ELSE LET answer == st.invoked[Len(cur.invoked)].returned IN
         IF answer # "none"
           THEN \A next \in {handle_resume(cur, answer)} : LikeAlone(next, st)
         ELSE IF st.pc = "done" THEN Raise(cur, "Exception", 500, "none") = st
         ELSE cur = st

SameAsAlone(st) ==
    IF st.pc = "idle" THEN st = Idle
    ELSE \A start \in {handle_start(Fresh(st), st.request.method)} :
            LikeAlone(start, st)

\* C11: a step of a dispatch changes no registration-time data (Method
\* Descriptors, Class Routing Info, API Descriptor, route table), whatever
\* its outcome, and after every step of any interleaving of two dispatches
\* each request is where its dispatch alone would be.
C11_DispatchFrame ==
    [][phase = "serving" =>
          /\ UNCHANGED RegistrationData
          /\ \A self \in {State'} : SameAsAlone(self)
          /\ \A other \in {peer'} : SameAsAlone(other)]_vars

\* C11 witness: the dispatches of two different requests suspended at the
\* same time, each on a handler method called with its JSON body parsed and
\* with the route table as it was compiled.
C11_Witness ==
    /\ phase = "serving"
    /\ pc = "await"
    /\ peer.pc = "await"
    /\ request.body = "dict_obj"
    /\ peer.request.body = "dict_obj"
    /\ request.path # peer.request.path
    /\ invoked[1].func # peer.invoked[1].func
    /\ handlers = rest_handler_to_tornado_handler(get_rest_resources_paths.paths)

====
